---- MODULE Spec2Model ----
(***************************************************************************)
(* Model of hotdoc_c_extension/c_comment_scanner/scannermodule.c: the      *)
(* CPython 2 extension module c_comment_scanner and its one function       *)
(* get_comments (scanner_get_comments), stepped line by line, together     *)
(* with the interpreter services it calls (PyArg_ParseTuple, PyList_New,   *)
(* Py_INCREF, Py_InitModule, the METH_VARARGS dispatch) and the caller     *)
(* that holds and releases the references it is handed.                    *)
(***************************************************************************)
EXTENDS Integers, Sequences, FiniteSets

VARIABLES
  imported,    \* initc_comment_scanner has run
  moduleDict,  \* the module's callables: name -> PyMethodDef
  pc,          \* position of the one thread: "idle", "L30".."L37", "crashed"
  callee,      \* attribute name of the current / last call
  args,        \* positional argument tuple of the current / last call
  kw,          \* keyword argument names of the current / last call
  filename,    \* local `filename` of scanner_get_comments (C string)
  list,        \* local `list` of scanner_get_comments (object id or NULL)
  heap,        \* the list objects: id -> [alive, ob_refcnt, items]
  result,      \* what the last call returned to the caller (id or NULL)
  err,         \* the interpreter's error indicator after the last call
  effects,     \* the operations the current / last call performed, in order
  held,        \* ids of the returned lists whose reference the caller still owns
  returned,    \* the lists returned so far, oldest first: [id, items]
  ncalls       \* number of calls made

vars == <<imported, moduleDict, pc, callee, args, kw, filename, list, heap,
          result, err, effects, held, returned, ncalls>>

----------------------------------------------------------------------------
(* Bounds *)

MaxNameLen == 1
MaxComments == 2
MaxObjects == 2
MaxCalls == 2

----------------------------------------------------------------------------
(* Values *)

NULL == 0
METH_VARARGS == 1

NUL == 0
Chars == {NUL, 97, 233}            \* '\0', 'a', and a character above 127
Comments == {"c1", "c2"}

Range(s) == {s[i] : i \in 1..Len(s)}

SeqsUpTo(S, n) == UNION {[1..k -> S] : k \in 0..n}

Names == SeqsUpTo(Chars, MaxNameLen)

PyStr(s) == [kind |-> "str", val |-> s]
PyUnicode(s) == [kind |-> "unicode", val |-> s]
PyInt == [kind |-> "int", val |-> <<>>]
PyNone == [kind |-> "none", val |-> <<>>]

Values == {PyStr(s) : s \in Names} \cup {PyUnicode(s) : s \in Names}
            \cup {PyInt, PyNone}

ExtraValues == {PyStr(<<97>>), PyInt}

ArgTuples == {<<>>} \cup {<<v>> : v \in Values}
               \cup {<<v, w>> : v \in ExtraValues, w \in ExtraValues}

KwSets == {{}, {"filename"}}

CallNames == {"get_comments", "scan_filename"}

NoName == <<-1>>                   \* the uninitialised `filename`

ObjIds == 1..MaxObjects

FreeObj == [alive |-> FALSE, ob_refcnt |-> 0, items |-> <<>>]

Effect(op, obj, fname, items) ==
  [op |-> op, obj |-> obj, fname |-> fname, items |-> items]

----------------------------------------------------------------------------
(* The interpreter services the module calls *)

\* What a reader of a `const char *` sees: the bytes before the first NUL.
RECURSIVE CString(_)
CString(s) ==
  IF s = <<>> \/ Head(s) = NUL THEN <<>> ELSE <<Head(s)>> \o CString(Tail(s))

\* The default (ASCII) encoding of a unicode object; fails on a character
\* above 127.
DefaultEncodable(u) == \A c \in Range(u) : c <= 127
DefaultEncode(u) == [i \in 1..Len(u) |-> u[i] % 128]

ParseFail(e) == [ok |-> FALSE, err |-> e, cstr |-> NoName]

ConvertBuffer(buf) ==
  IF Len(CString(buf)) # Len(buf)
    THEN ParseFail("TypeError")           \* "string without null bytes"
    ELSE [ok |-> TRUE, err |-> "none", cstr |-> CString(buf)]

\* Faulty variant: the embedded-NUL check is left out.
ParseTuple_s_NoNulCheck(a) ==
  IF Len(a) # 1 THEN ParseFail("TypeError")
  ELSE IF a[1].kind = "str"
    THEN [ok |-> TRUE, err |-> "none", cstr |-> CString(a[1].val)]
  ELSE IF a[1].kind = "unicode"
    THEN IF DefaultEncodable(a[1].val)
           THEN [ok |-> TRUE, err |-> "none",
                 cstr |-> CString(DefaultEncode(a[1].val))]
           ELSE ParseFail("UnicodeEncodeError")
  ELSE ParseFail("TypeError")

\* Faulty variant: any single object is accepted (format "O" followed by a
\* conversion that yields the empty name for a non-string).
ParseTuple_s_AnyObject(a) ==
  IF Len(a) # 1 THEN ParseFail("TypeError")
  ELSE IF a[1].kind = "str" THEN ConvertBuffer(a[1].val)
  ELSE IF a[1].kind = "unicode"
    THEN IF DefaultEncodable(a[1].val)
           THEN ConvertBuffer(DefaultEncode(a[1].val))
           ELSE ParseFail("UnicodeEncodeError")
  ELSE [ok |-> TRUE, err |-> "none", cstr |-> <<>>]

\* PyArg_ParseTuple(args, "s", &filename)
ParseTuple_s(a) ==
  IF Len(a) # 1 THEN ParseFail("TypeError")   \* "takes exactly 1 argument"
  ELSE IF a[1].kind = "str" THEN ConvertBuffer(a[1].val)
  ELSE IF a[1].kind = "unicode"
    THEN IF DefaultEncodable(a[1].val)
           THEN ConvertBuffer(DefaultEncode(a[1].val))
           ELSE ParseFail("UnicodeEncodeError")
  ELSE ParseFail("TypeError")                 \* "must be string"

\* Faulty variant: PyList_New hands out a list that is still alive (a cached list).
NewListIds_Cached(h) == ObjIds

\* Where PyList_New (0) places the new list: the first free slot (object
\* identities are interchangeable, so one placement stands for all).
NewListIds(h) ==
  LET free == {i \in ObjIds : ~h[i].alive}
  IN  {i \in free : \A j \in free : i <= j}

NewListObj == [alive |-> TRUE, ob_refcnt |-> 1, items |-> <<>>]

Reverse(s) == [i \in 1..Len(s) |-> s[Len(s) + 1 - i]]

\* Faulty variant: the entries are reordered before the list is returned.
Py_INCREF_Reordered(h, o) ==
  [h EXCEPT ![o].ob_refcnt = @ + 1, ![o].items = Reverse(@)]

Py_INCREF(h, o) == [h EXCEPT ![o].ob_refcnt = @ + 1]

Py_DECREF(h, o) ==
  IF h[o].ob_refcnt = 1
    THEN [h EXCEPT ![o] = FreeObj]            \* list_dealloc
    ELSE [h EXCEPT ![o].ob_refcnt = @ - 1]

----------------------------------------------------------------------------
(* The method table and module initialisation *)

NoString == "(null)"               \* a NULL char pointer in a PyMethodDef

MethodDef(name, meth, flags, doc) ==
  [ml_name |-> name, ml_meth |-> meth, ml_flags |-> flags, ml_doc |-> doc]

Sentinel == MethodDef(NoString, NoString, 0, NoString)

\* Faulty variant: the scanning routine is registered as a second callable.
ScannerMethods_Extra ==
  << MethodDef("get_comments", "scanner_get_comments", METH_VARARGS,
               "Get comments from a filename."),
     MethodDef("scan_filename", "scanner_get_comments", METH_VARARGS,
               NoString),
     Sentinel >>

ScannerMethods ==
  << MethodDef("get_comments", "scanner_get_comments", METH_VARARGS,
               "Get comments from a filename."),
     Sentinel >>

EmptyDict == [n \in {} |-> Sentinel]

DictSet(d, e) ==
  [n \in DOMAIN d \cup {e.ml_name} |-> IF n = e.ml_name THEN e ELSE d[n]]

\* Py_InitModule adds every entry before the first one whose ml_name is NULL.
RECURSIVE InitWalk(_, _, _)
InitWalk(methods, i, d) ==
  IF i > Len(methods) \/ methods[i].ml_name = NoString
    THEN d
    ELSE InitWalk(methods, i + 1, DictSet(d, methods[i]))

Py_InitModule(methods) == InitWalk(methods, 1, EmptyDict)

----------------------------------------------------------------------------
(* Initial state: the interpreter is up, the module is not yet imported *)

Init ==
  /\ imported = FALSE
  /\ moduleDict = EmptyDict
  /\ pc = "idle"
  /\ callee = NoString
  /\ args = <<>>
  /\ kw = {}
  /\ filename = NoName
  /\ list = NULL
  /\ heap = [i \in ObjIds |-> FreeObj]
  /\ result = NULL
  /\ err = "none"
  /\ effects = <<>>
  /\ held = {}
  /\ returned = <<>>
  /\ ncalls = 0

\* initc_comment_scanner: (void) Py_InitModule ("c_comment_scanner", ...)
initc_comment_scanner ==
  /\ ~imported
  /\ imported' = TRUE
  /\ moduleDict' = Py_InitModule(ScannerMethods)
  /\ UNCHANGED <<pc, callee, args, kw, filename, list, heap, result, err,
                 effects, held, returned, ncalls>>

\* The caller evaluates c_comment_scanner.<name>(*a, **k).  A missing
\* attribute and keyword arguments to a METH_VARARGS function are refused by
\* the interpreter before any module code runs.
Invoke(name, a, k) ==
  /\ imported
  /\ pc = "idle"
  /\ ncalls < MaxCalls
  /\ ncalls' = ncalls + 1
  /\ callee' = name
  /\ args' = a
  /\ kw' = k
  /\ filename' = NoName
  /\ list' = NULL
  /\ effects' = <<>>
  /\ result' = NULL
  /\ IF name \notin DOMAIN moduleDict
       THEN /\ err' = "AttributeError"
            /\ pc' = "idle"
       ELSE IF moduleDict[name].ml_flags = METH_VARARGS /\ k # {}
         THEN /\ err' = "TypeError"       \* "takes no keyword arguments"
              /\ pc' = "idle"
         ELSE /\ err' = "none"
              /\ pc' = "L30"
  /\ UNCHANGED <<imported, moduleDict, heap, held, returned>>

\* if (!PyArg_ParseTuple (args, "s", &filename)) return NULL;
ParseArgs ==
  /\ pc = "L30"
  /\ LET r == ParseTuple_s(args) IN
       IF r.ok
         THEN /\ filename' = r.cstr
              /\ pc' = "L33"
              /\ UNCHANGED <<result, err>>
         ELSE /\ result' = NULL
              /\ err' = r.err
              /\ pc' = "idle"
              /\ UNCHANGED filename
  /\ UNCHANGED <<imported, moduleDict, callee, args, kw, list, heap, effects,
                 held, returned, ncalls>>

\* list = PyList_New (0);  -- a new reference to a new empty list
NewListOk ==
  /\ pc = "L33"
  /\ \E id \in NewListIds(heap) :
       /\ heap' = [heap EXCEPT ![id] = NewListObj]
       /\ list' = id
       /\ effects' = Append(effects, Effect("PyList_New", id, NoName, <<>>))
  /\ pc' = "L34"
  /\ UNCHANGED <<imported, moduleDict, callee, args, kw, filename, result,
                 err, held, returned, ncalls>>

\* list = PyList_New (0);  -- out of memory: NULL, MemoryError set
NewListFail ==
  /\ pc = "L33"
  /\ list' = NULL
  /\ err' = "MemoryError"
  /\ effects' = Append(effects, Effect("PyList_New", NULL, NoName, <<>>))
  /\ pc' = "L34"
  /\ UNCHANGED <<imported, moduleDict, callee, args, kw, filename, heap,
                 result, held, returned, ncalls>>

\* scan_filename (filename, list);  -- appends the comments it finds
Scan ==
  /\ pc = "L34"
  /\ list # NULL
  /\ \E cs \in SeqsUpTo(Comments, MaxComments) :
       /\ heap' = [heap EXCEPT ![list].items = @ \o cs]
       /\ effects' = Append(effects,
                       Effect("scan_filename", list, filename,
                              heap[list].items \o cs))
  /\ pc' = "L36"
  /\ UNCHANGED <<imported, moduleDict, callee, args, kw, filename, list,
                 result, err, held, returned, ncalls>>

\* scan_filename (filename, NULL): nothing can be appended; the scan either
\* finds nothing to append and returns, or dereferences the null pointer.
ScanNull ==
  /\ pc = "L34"
  /\ list = NULL
  /\ effects' = Append(effects,
                  Effect("scan_filename", NULL, filename, <<>>))
  /\ pc' \in {"L36", "crashed"}
  /\ UNCHANGED <<imported, moduleDict, callee, args, kw, filename, list,
                 heap, result, err, held, returned, ncalls>>

\* Py_INCREF (list);
IncRef ==
  /\ pc = "L36"
  /\ list # NULL
  /\ heap' = Py_INCREF(heap, list)
  /\ pc' = "L37"
  /\ UNCHANGED <<imported, moduleDict, callee, args, kw, filename, list,
                 result, err, effects, held, returned, ncalls>>

\* Py_INCREF (NULL): a store through the null pointer, undefined behaviour.
\* The process faults, or (page zero writable) the store lands and the
\* function goes on.
IncRefNull ==
  /\ pc = "L36"
  /\ list = NULL
  /\ pc' \in {"L37", "crashed"}
  /\ UNCHANGED <<imported, moduleDict, callee, args, kw, filename, list,
                 heap, result, err, effects, held, returned, ncalls>>

\* return list;  -- the caller receives one reference
Return ==
  /\ pc = "L37"
  /\ result' = list
  /\ pc' = "idle"
  /\ IF list # NULL
       THEN /\ held' = held \cup {list}
            /\ returned' = Append(returned,
                              [id |-> list, items |-> heap[list].items])
       ELSE UNCHANGED <<held, returned>>
  /\ UNCHANGED <<imported, moduleDict, callee, args, kw, filename, list,
                 heap, err, effects, ncalls>>

\* The caller drops the reference it was handed for a returned list.
Release(id) ==
  /\ pc = "idle"
  /\ id \in held
  /\ heap' = Py_DECREF(heap, id)
  /\ held' = held \ {id}
  /\ UNCHANGED <<imported, moduleDict, pc, callee, args, kw, filename, list,
                 result, err, effects, returned, ncalls>>

Next ==
  \/ initc_comment_scanner
  \/ \E name \in CallNames, a \in ArgTuples, k \in KwSets : Invoke(name, a, k)
  \/ ParseArgs
  \/ NewListOk
  \/ NewListFail
  \/ Scan
  \/ ScanNull
  \/ IncRef
  \/ IncRefNull
  \/ Return
  \/ \E id \in held : Release(id)

Spec == Init /\ [][Next]_vars

----------------------------------------------------------------------------
(* Vocabulary of the properties *)

StringKinds == {"str", "unicode"}

\* The positional arguments are exactly one string object.
OneStringArg == Len(args) = 1 /\ args[1].kind \in StringKinds

\* ... and that string is a byte string without NUL bytes.
PlainStringArg ==
  Len(args) = 1 /\ args[1].kind = "str" /\ NUL \notin Range(args[1].val)

\* A call c_comment_scanner.get_comments(*args) has been made.
GetCommentsCall == ncalls > 0 /\ callee = "get_comments" /\ kw = {}

\* ... and it has returned to its caller.
GetCommentsReturned == GetCommentsCall /\ pc = "idle"

Scans == SelectSeq(effects, LAMBDA e : e.op = "scan_filename")

ReturnedIds == {returned[i].id : i \in 1..Len(returned)}

----------------------------------------------------------------------------
(* Properties *)

\* C1: a get_comments call whose positional arguments are not exactly one
\* string never gets past argument parsing: it performs no PyList_New and no
\* scan_filename, and once it has returned the result is NULL with a
\* TypeError set.
C1_BadArgsFailBeforeScan ==
  (GetCommentsCall /\ ~OneStringArg) =>
    /\ pc \in {"L30", "idle"}
    /\ effects = <<>>
    /\ list = NULL
    /\ pc = "idle" => (result = NULL /\ err = "TypeError")

\* C1 witness: after an earlier successful call, get_comments(<int>) has
\* returned NULL with a TypeError.
C1_Witness ==
  /\ GetCommentsReturned
  /\ args = <<PyInt>>
  /\ err = "TypeError"
  /\ returned # <<>>

\* C2: a get_comments call with exactly one string argument (here: a byte
\* string without NUL bytes, which the "s" converter accepts) ends only by
\* returning, and what it returns is a live list object, never NULL.
C2_OneStringReturnsList ==
  /\ (GetCommentsCall /\ PlainStringArg) => pc # "crashed"
  /\ (GetCommentsReturned /\ PlainStringArg) =>
       (result \in ObjIds /\ heap[result].alive)

\* C3: from the end of the scan to the return and for as long as the caller
\* holds the result, the list is the object that was handed to scan_filename
\* and holds exactly the entries the scan left in it, in the same order.
C3_ReturnsWhatScanLeft ==
  /\ (pc \in {"L36", "L37"} /\ list # NULL) =>
       /\ Len(Scans) = 1
       /\ Scans[1].obj = list
       /\ heap[list].items = Scans[1].items
  /\ (GetCommentsReturned /\ result # NULL /\ result \in held) =>
       /\ Len(Scans) = 1
       /\ Scans[1].obj = result
       /\ heap[result].items = Scans[1].items

\* C3 witness: a call has returned a list of two different entries.
C3_Witness ==
  /\ GetCommentsReturned
  /\ result # NULL
  /\ result \in held
  /\ Len(heap[result].items) = 2
  /\ heap[result].items[1] # heap[result].items[2]

\* C4: on return the caller's reference is the only one (reference count 1),
\* and once the caller has released every returned reference no returned
\* list is alive.
C4_CallerIsSoleOwner ==
  /\ (GetCommentsReturned /\ result # NULL /\ result \in held) =>
       heap[result].ob_refcnt = 1
  /\ (pc = "idle" /\ held = {}) =>
       \A id \in ReturnedIds : ~heap[id].alive

\* C5: in a call whose argument parsed, scan_filename is not invoked before
\* the list exists, is invoked exactly once on the list PyList_New created,
\* and the call never ends other than by returning.
C5_ScanOnceOnCreatedList ==
  /\ pc \in {"L30", "L33", "L34"} => Scans = <<>>
  /\ (pc \in {"L36", "L37"} \/ (GetCommentsReturned /\ effects # <<>>)) =>
       /\ Len(effects) = 2
       /\ effects[1].op = "PyList_New"
       /\ effects[1].obj # NULL
       /\ effects[2].op = "scan_filename"
       /\ effects[2].obj = effects[1].obj
  /\ pc # "crashed"

\* C6: a get_comments call that has returned signals an error (NULL) exactly
\* when argument parsing failed; when parsing succeeded the result is the
\* list as the scan left it.
C6_ErrorIffParseFails ==
  GetCommentsReturned =>
    /\ (result = NULL) <=> ~ParseTuple_s(args).ok
    /\ ParseTuple_s(args).ok =>
         /\ Len(Scans) = 1
         /\ Scans[1].obj = result
         /\ heap[result].items = Scans[1].items

\* C7: the module's only callable is get_comments; it is scanner_get_comments
\* called with positional arguments only (METH_VARARGS), the table holds that
\* one entry and then the sentinel, and no call under any other name or with
\* keyword arguments reaches module code.
C7_OneCallable ==
  /\ imported =>
       /\ DOMAIN moduleDict = {"get_comments"}
       /\ moduleDict["get_comments"].ml_meth = "scanner_get_comments"
       /\ moduleDict["get_comments"].ml_flags = METH_VARARGS
  /\ ~imported => DOMAIN moduleDict = {}
  /\ pc # "idle" => (callee = "get_comments" /\ kw = {})
  /\ (ncalls > 0 /\ callee # "get_comments") =>
       (pc = "idle" /\ result = NULL /\ err = "AttributeError"
          /\ effects = <<>>)

\* C7 witness: after a successful get_comments call, a call under another
\* name has been refused.
C7_Witness ==
  /\ imported
  /\ pc = "idle"
  /\ callee = "scan_filename"
  /\ err = "AttributeError"
  /\ returned # <<>>

\* C8: the list handed to scan_filename is new: empty, referenced once and
\* not one of the lists returned earlier; the returned lists are pairwise
\* different objects; and every returned list the caller still holds has the
\* contents it had when it was returned.
C8_FreshListPerCall ==
  /\ (pc = "L34" /\ list # NULL) =>
       /\ heap[list].items = <<>>
       /\ heap[list].ob_refcnt = 1
       /\ list \notin ReturnedIds
  /\ \A i, j \in 1..Len(returned) :
       i # j => returned[i].id # returned[j].id
  /\ \A i \in 1..Len(returned) :
       returned[i].id \in held =>
         /\ heap[returned[i].id].alive
         /\ heap[returned[i].id].items = returned[i].items

\* C8 witness: a second call has returned while the caller still holds the
\* first, non-empty, result.
C8_Witness ==
  /\ GetCommentsReturned
  /\ Len(returned) = 2
  /\ returned[1].id \in held
  /\ returned[1].items # <<>>
  /\ returned[2].items # returned[1].items

\* C9: the name scan_filename receives is character for character the
\* string the caller passed, and the call performs nothing but one
\* PyList_New followed by one scan_filename on that name.
C9_FilenamePassedThrough ==
  /\ \A i \in 1..Len(Scans) :
       /\ OneStringArg
       /\ Scans[i].fname = args[1].val
  /\ pc \in {"L33", "L34", "L36", "L37"} => filename = args[1].val
  /\ \A i \in 1..Len(effects) :
       effects[i].op = (IF i = 1 THEN "PyList_New" ELSE "scan_filename")
  /\ Len(effects) <= 2

\* C9 witness: a scan has run on a non-empty name made of bytes above 127.
C9_Witness ==
  /\ Len(Scans) = 1
  /\ Scans[1].obj # NULL
  /\ Scans[1].fname # <<>>
  /\ \A c \in Range(Scans[1].fname) : c > 127

====
